---- MODULE Spec2Model ----
(***************************************************************************)
(* The dual-configuration morph engine of the tree / gallery scene:       *)
(*   - App (src/App.tsx): the target state appState, the manual toggle,   *)
(*     the gesture command handler;                                        *)
(*   - MainScene (src/App.tsx): the smoothed progress scalar;             *)
(*   - GestureController (src/components/GestureController.tsx): model    *)
(*     loading, camera start / stop, the per-frame classification poll;   *)
(*   - App.handlePhotoUpload (src/App.tsx): the photo list;               *)
(*   - Foliage, Ornaments, GiftBoxes, PhotoItem (src/components): the     *)
(*     per-frame callbacks that place the four populations;               *)
(*   - getTreePosition, getScatterPosition, getGalleryPosition            *)
(*     (src/utils/math.ts): the positions, in exact fractions; a value of *)
(*     Math.random() is a multiple of 1 / RandomDen.                      *)
(*                                                                         *)
(* Numbers.  smoothProgress is a JavaScript float in [0,1].  It is kept   *)
(* here in fixed point: One units make 1.0 and Epsilon units make the     *)
(* 0.001 of the snap test; a product with the smoothing factor is rounded *)
(* to the nearest unit.  Classifier scores are kept in hundredths.        *)
(* A coordinate of a position is a JavaScript float as well; where its    *)
(* rounding matters it is kept as a float of FloatBits significant bits,  *)
(* CoordUnit units to a unit of length, every operation rounded to        *)
(* nearest, ties to even (FloatRound).  lerpVectors works on x, y and z   *)
(* alike; the model carries the y coordinate.  The oscillation added to   *)
(* a position after the interpolation depends on the clock alone and is   *)
(* left out.                                                              *)
(***************************************************************************)
EXTENDS Integers, Sequences, FiniteSets, TLC

\* ------------------------------------------------------------- bounds
\* Fixed-point units per 0.001 of progress.
Resolution == 50
\* Largest video timestamp (video.currentTime) the camera reaches.
MaxTime == 1
\* Most getUserMedia requests issued in one run.
MaxStreams == 3
\* Ticks within which the approach of progress to its bound must end.
MaxTicksToBound == 136
\* Most files selected in one upload, and most files uploaded in one run.
MaxFiles == 10
MaxUploaded == 60
\* Most display frames in one run of the scene.
MaxFrames == 15
\* Instances of an instanced population (ORNAMENT_COUNT is 180 and GIFT_COUNT
\* is 40 in src/components/TreeAccessories.tsx).
InstanceCount == 2
\* Significant bits of a coordinate, and the largest coordinate given to the
\* interpolation.
FloatBits == 3
MaxCoordinate == 12
\* Units of a coordinate per unit of length.
CoordUnit == 2
\* Largest total given to getTreePosition and getGalleryPosition.
MaxTotal == 25
\* Math.random() returns a multiple of 1 / RandomDen in [0, 1).
RandomDen == 100

\* --------------------------------------------------- program constants
\* prev + diff * 0.05  (src/App.tsx:38), as SmoothNum / SmoothDen.
SmoothNum == 5
SmoothDen == 100
\* score > 0.5  (src/components/GestureController.tsx:120), in hundredths.
ScoreThreshold == 50
\* const MAX_PLACEHOLDERS = 8  (src/App.tsx:19)
MAX_PLACEHOLDERS == 8
\* lerp(..., 0.1)  (src/components/Foliage.tsx:124, 202), as LerpNum / LerpDen.
LerpNum == 1
LerpDen == 10
\* rotation.y += 0.002  (src/components/Foliage.tsx:129), in thousandths.
RotationStep == 2
\* lerp(0.8, 2.5, progress)  (src/components/Foliage.tsx:214), in thousandths.
TreeScale == 800
GalleryScale == 2500
\* TREE_HEIGHT = 12  (src/utils/math.ts:4)
TREE_HEIGHT == 12
\* TREE_RADIUS = 4  (src/utils/math.ts:5)
TREE_RADIUS == 4
\* SCATTER_RADIUS = 15  (src/utils/math.ts:6)
SCATTER_RADIUS == 15

One == 1000 * Resolution
\* Math.abs(diff) < 0.001  (src/App.tsx:37)
Epsilon == Resolution

AppStates == {"TREE", "SCATTERED"}
Commands == {"SCATTER", "GATHER"}

VARIABLES
    \* App
    appState,           \* useState<AppState>('TREE')
    \* MainScene
    smoothProgress,     \* useState(0), in fixed point
    \* GestureController state
    enabled,            \* useState(false)
    loading,            \* useState(false)
    detectedGesture,    \* useState('None')
    \* GestureController refs
    recognizerRef,      \* "null" or "loaded"
    lastVideoTimeRef,   \* -1 or the last processed video.currentTime
    animationFrameRef,  \* 0, or the closure whose callback was requested last
    previewMounted,     \* videoRef.current and canvasRef.current are elements
    \* asynchronous tasks and the browser
    modelLoad,          \* position of the loadModel task
    requests,           \* the getUserMedia requests, one closure each
    srcObject,          \* 0 (null), or the stream attached to the video element
    metaHandler,        \* 0, or the closure set as video.onloadedmetadata
    metaPending,        \* a loadedmetadata event is due
    rafScheduled,       \* closures with a requested animation frame
    videoTime,          \* video.currentTime
    \* what the last poll did (history, read by the properties only)
    lastPoll,
    classifyCount,
    \* App: the photo list
    photos,             \* useState<PhotoData[]>(DEFAULT_PHOTOS)
    urlCount,           \* object URLs made by URL.createObjectURL so far
    \* the scene: one display frame runs the useFrame callbacks in the order
    \* Foliage, Ornaments, GiftBoxes, PhotoItem, then draws
    framePc,            \* the callback that runs next ("render": the draw)
    frameIndex,         \* i of the for loop of Ornaments / GiftBoxes
    frameCount,         \* display frames begun
    uProgress,          \* Foliage: material.uniforms.uProgress.value
    rotationY,          \* rotation.y of each population's object, thousandths
    data,               \* Foliage / Ornaments / GiftBoxes: the useMemo value,
                        \* data[i].treePos, .scatterPos
    instanceMatrix,     \* the position in each instance's matrix, and the
                        \* frame that wrote it (0: the layout effect)
    version,            \* instanceMatrix.version (needsUpdate = true adds 1)
    uploaded,           \* the version the renderer has sent to the GPU
    photoGroup,         \* PhotoItem: groupRef.current.position and .scale
    blend,              \* the blend weight each population used last (history)
    \* one application of THREE.Vector3.lerpVectors
    lerpIn,
    lerpOut,
    \* MainScene: the animation loop of the effect of [appState]
    animRequests,       \* animate callbacks requested and not yet run, counted
                        \* by the appState their effect was made for
    effectState,        \* the appState of the render whose effect ran last
    \* one application of getTreePosition and of getGalleryPosition
    mathIn,
    mathOut

morphVars == <<appState, smoothProgress>>
gestureVars == <<enabled, loading, detectedGesture, recognizerRef,
                 lastVideoTimeRef, animationFrameRef, previewMounted,
                 modelLoad, requests, srcObject, metaHandler, metaPending,
                 rafScheduled, videoTime, lastPoll, classifyCount>>
photoVars == <<photos, urlCount, photoGroup>>
frameVars == <<framePc, frameIndex, frameCount, uProgress, rotationY,
               instanceMatrix, version, uploaded, blend>>
memoVars == <<data>>
lerpVars == <<lerpIn, lerpOut>>
loopVars == <<animRequests, effectState>>
mathVars == <<mathIn, mathOut>>
otherVars == <<photoVars, frameVars, lerpVars, loopVars, mathVars>>
sceneVars == <<otherVars, memoVars>>
vars == <<appState, smoothProgress, enabled, loading, detectedGesture,
          recognizerRef, lastVideoTimeRef, animationFrameRef, previewMounted,
          modelLoad, requests, srcObject, metaHandler, metaPending,
          rafScheduled, videoTime, lastPoll, classifyCount, photos, urlCount,
          framePc, frameIndex, frameCount, uProgress, rotationY, data,
          instanceMatrix, version, uploaded, photoGroup, blend, lerpIn,
          lerpOut, animRequests, effectState, mathIn, mathOut>>

Abs(x) == IF x < 0 THEN -x ELSE x

\* ------------------------------------------------ morph progress controller

\* const target = appState === 'SCATTERED' ? 1 : 0
TargetOf(state) == IF state = "SCATTERED" THEN One ELSE 0

\* diff * 0.05, rounded to the nearest unit
Scaled(diff) ==
    LET m == (Abs(diff) * SmoothNum + SmoothDen \div 2) \div SmoothDen
    IN  IF diff < 0 THEN -m ELSE m

\* A step that never snaps to the bound.
SmoothStepNoSnap(prev, target) == prev + Scaled(target - prev)

\* A step that adds the whole smoothing numerator instead of the fraction.
SmoothStepOvershoot(prev, target) ==
    LET diff == target - prev
    IN  IF Abs(diff) < Epsilon THEN target
        ELSE prev + SmoothNum * diff

\* The updater passed to setSmoothProgress.
SmoothStep(prev, target) ==
    LET diff == target - prev
    IN  IF Abs(diff) < Epsilon THEN target
        ELSE prev + Scaled(diff)

\* An updater that always selects SCATTERED.
toggleStateStuck(prev) == "SCATTERED"

\* prev => prev === 'TREE' ? 'SCATTERED' : 'TREE'
toggleState(prev) == IF prev = "TREE" THEN "SCATTERED" ELSE "TREE"

\* handleGesture of the render whose appState was `closure`, called while the
\* state is `current`: the new state.
handleGesture(closure, command, current) ==
    IF command = "SCATTER" /\ closure # "SCATTERED" THEN "SCATTERED"
    ELSE IF command = "GATHER" /\ closure # "TREE" THEN "TREE"
    ELSE current

\* ------------------------------------------------------------- the photos

\* DEFAULT_PHOTOS: MAX_PLACEHOLDERS entries with isPlaceholder true.  url is 0
\* for PLACEHOLDER_URL and n for the n-th object URL made.
Placeholder == [isPlaceholder |-> TRUE, url |-> 0]
Photo(u) == [isPlaceholder |-> FALSE, url |-> u]
DEFAULT_PHOTOS == [i \in 1 .. MAX_PLACEHOLDERS |-> Placeholder]

\* for (let i = 0; i < next.length && fileIdx < files.length; i++)
\*     if (next[i].isPlaceholder) { next[i] = {...}; fileIdx++; }
RECURSIVE FillPlaceholders(_, _, _, _)
FillPlaceholders(next, files, i, fileIdx) ==
    IF i > Len(next) \/ fileIdx >= Len(files)
    THEN [next |-> next, fileIdx |-> fileIdx]
    ELSE IF next[i].isPlaceholder
         THEN FillPlaceholders([next EXCEPT ![i] = Photo(files[fileIdx + 1])],
                               files, i + 1, fileIdx + 1)
         ELSE FillPlaceholders(next, files, i + 1, fileIdx)

\* An updater that appends every file and fills no placeholder.
handlePhotoUploadAppendOnly(prev, files) ==
    prev \o [j \in 1 .. Len(files) |-> Photo(files[j])]

\* An updater that writes the files over the list from its first entry.
handlePhotoUploadFromFirst(prev, files) ==
    [i \in 1 .. (IF Len(files) > Len(prev) THEN Len(files) ELSE Len(prev)) |->
        IF i <= Len(files) THEN Photo(files[i]) ELSE prev[i]]

\* The updater passed to setPhotos, files being the object URLs of the upload.
handlePhotoUpload(prev, files) ==
    LET filled == FillPlaceholders(prev, files, 1, 0)
    IN  filled.next \o [j \in 1 .. (Len(files) - filled.fileIdx) |->
                            Photo(files[filled.fileIdx + j])]

\* A THREE.Group as constructed: position (0, 0, 0), scale 1 (in thousandths).
NewGroup == [position |-> 0, scale |-> 1000]

\* --------------------------------------------------------------- the floats

\* The spacing of the floats at the magnitude of a / den.
RECURSIVE Quantum(_, _, _)
Quantum(a, den, q) ==
    IF a < den * (2 ^ FloatBits) * q THEN q ELSE Quantum(a, den, 2 * q)

\* num / den rounded to the nearest float, ties to the even significand.
FloatRound(num, den) ==
    LET a == Abs(num)
        q == Quantum(a, den, 1)
        d == den * q
        fl == a \div d
        rem == a % d
        m == IF 2 * rem > d \/ (2 * rem = d /\ fl % 2 = 1) THEN fl + 1 ELSE fl
    IN  IF num < 0 THEN -(m * q) ELSE m * q

\* The coordinates that are floats.
Coordinates ==
    {x \in (-MaxCoordinate) .. MaxCoordinate : FloatRound(x, 1) = x}

\* new THREE.Vector3().lerpVectors(v1, v2, alpha), a coordinate of it:
\* v1 + (v2 - v1) * alpha, alpha a progress value.
lerpVectors(v1, v2, alpha) ==
    FloatRound(v1 + FloatRound(FloatRound(v2 - v1, 1) * alpha, One), 1)

\* position.lerp(v, 0.1), a coordinate of it: this += (v - this) * 0.1
VectorLerp(this, v) ==
    FloatRound(this + FloatRound(FloatRound(v - this, 1) * LerpNum, LerpDen), 1)

\* THREE.MathUtils.lerp(x, y, t) = (1 - t) * x + t * y in fixed point, t being
\* num / den.
MathLerp(x, y, num, den) ==
    ((den - num) * x + num * y + den \div 2) \div den

\* getTreePosition(index, total).y = (index / total) * TREE_HEIGHT
\*                                   - TREE_HEIGHT / 2
TreeY(index, total) ==
    FloatRound(CoordUnit * TREE_HEIGHT * index
                   - CoordUnit * (TREE_HEIGHT \div 2) * total, total)

\* Ornaments: getTreePosition(i, ORNAMENT_COUNT).multiplyScalar(1.05)
OrnamentTreeY(i) == FloatRound(TreeY(i, InstanceCount) * 105, 100)

\* GiftBoxes: treePos.y = mapLinear(i / GIFT_COUNT, 0, 1, -5, 0)
GiftTreeY(i) == FloatRound(CoordUnit * (5 * i - 5 * InstanceCount), InstanceCount)

\* PhotoItem: getTreePosition(index * 30, total * 30), then y += 2
PhotoTreeY(index, total) ==
    FloatRound(TreeY(index * 30, total * 30) + 2 * CoordUnit, 1)

\* getGalleryPosition(index, total).pos.y = floor(index / 8) * 2.5 - 2
GalleryY(index) ==
    FloatRound((index \div 8) * 25 * CoordUnit - 20 * CoordUnit, 10)

Min(a, b) == IF a < b THEN a ELSE b

\* getTreePosition(index, total), in exact arithmetic.  y and radius are
\* fractions: y = yNum / den, radius = rNum / rDen;
\*   y      = (index / total) * TREE_HEIGHT - TREE_HEIGHT / 2
\*   radius = ((TREE_HEIGHT / 2) - y) * (TREE_RADIUS / TREE_HEIGHT) * 1.5
\*   angle  = index * 0.5  (halfAngle: the angle in halves of a radian)
\* and the position is (cos(angle) * radius, y, sin(angle) * radius).
getTreePosition(index, total) ==
    LET yNum == TREE_HEIGHT * index - (TREE_HEIGHT \div 2) * total
    IN  [yNum |-> yNum,
         den |-> total,
         rNum |-> ((TREE_HEIGHT \div 2) * total - yNum) * TREE_RADIUS * 15,
         rDen |-> total * TREE_HEIGHT * 10,
         halfAngle |-> index]

\* A gallery whose rings lie 2 apart.
getGalleryPositionTightRings(index, total) ==
    [ringIndex |-> index \div 8,
     positionInRing |-> index % 8,
     angleNum |-> index % 8,
     angleDen |-> Min(total, 8),
     y |-> (index \div 8) * 20 - 20]

\* A gallery that puts every photo on the lowest ring.
getGalleryPositionOneRing(index, total) ==
    [ringIndex |-> 0,
     positionInRing |-> index % 8,
     angleNum |-> index % 8,
     angleDen |-> Min(total, 8),
     y |-> -20]

\* getGalleryPosition(index, total), in exact arithmetic:
\*   angleStep      = (Math.PI * 2) / Math.min(total, 8)
\*   ringIndex      = Math.floor(index / 8)
\*   positionInRing = index % 8
\*   angle          = positionInRing * angleStep
\*   y              = ringIndex * 2.5 - 2
\* and the position is (cos(angle) * 6, y, sin(angle) * 6).  The angle is
\* angleNum / angleDen of a turn, y is in tenths.
getGalleryPosition(index, total) ==
    LET ringIndex == index \div 8
        positionInRing == index % 8
    IN  [ringIndex |-> ringIndex,
         positionInRing |-> positionInRing,
         angleNum |-> positionInRing,
         angleDen |-> Min(total, 8),
         y |-> ringIndex * 25 - 20]

\* if (progress < 0.5) rotation.y += 0.002: what is added to rotation.y.
IdleSpin(progress) == IF 2 * progress < One THEN RotationStep ELSE 0

Populations == {"foliage", "ornaments", "gifts", "photos"}
Instanced == {"ornaments", "gifts"}
Instances == 1 .. InstanceCount

\* The populations that keep a scatter position for each entity.
Memoized == {"foliage", "ornaments", "gifts"}

\* Math.random(): the n-th value after seed of the generator's sequence, as a
\* number of units of 1 / RandomDen.  The sequence here adds a fixed stride.
RandomAt(seed, n) == (seed + 37 * n) % RandomDen

\* getScatterPosition: r = 8 + Math.random() * SCATTER_RADIUS, the distance of
\* the position (r sin(phi) cos(theta), r sin(phi) sin(theta), r cos(phi))
\* from the origin, in units of 1 / RandomDen, for the value random.
getScatterRadius(random) == 8 * RandomDen + random * SCATTER_RADIUS

\* The place, from 0, of entity i of pop in the order in which the
\* populations draw.
EntityNumber(pop, i) ==
    (IF pop = "foliage" THEN 0
     ELSE IF pop = "ornaments" THEN InstanceCount
     ELSE 2 * InstanceCount) + i - 1

\* The value the useMemo factory of Foliage (targetPositions), Ornaments and
\* GiftBoxes (data) makes: the tree position by the index (the random offsets
\* of the foliage left out), the scatter position as getScatterPosition draws
\* it with the generator at seed: its height, here c for the entities of odd
\* index and -c for the others, and its distance from the origin.
DataFor(c, seed) ==
    [pop \in Memoized |-> [i \in Instances |->
        [treePos |-> IF pop = "foliage" THEN TreeY(i - 1, InstanceCount)
                     ELSE IF pop = "ornaments" THEN OrnamentTreeY(i - 1)
                     ELSE GiftTreeY(i - 1),
         scatterPos |-> IF i % 2 = 1 THEN c ELSE -c,
         random |-> RandomAt(seed, EntityNumber(pop, i)),
         scatterR |-> getScatterRadius(RandomAt(seed, EntityNumber(pop, i)))]]]

\* data as the model of the scene has it: the generator started at 0.
DataWith(c) == DataFor(c, 0)

\* A hook that runs its factory in every render.
useMemoEveryRender(cached, made) == made

\* useMemo(factory, []) in a render after the first: the value of the first
\* render, cached, and not what the factory would make now.
useMemo(cached, made) == cached

\* A render of Foliage, Ornaments and GiftBoxes after the first (MainScene
\* renders them whenever smoothProgress, appState or photos is set): each
\* calls useMemo again, the generator being past the values drawn before.
Rerender ==
    data' = useMemo(data,
                    DataFor(MaxCoordinate,
                            RandomAt(data["gifts"][InstanceCount].random, 1)))

\* The seeds the generator is started with.
Seeds == {0, RandomDen \div 2, RandomDen - 1}

\* The weights lerpVectors is applied at.
Alphas == {0, One \div 2, One}
NoLerp == [v1 |-> 0, v2 |-> 0, alpha |-> 0]
NoOutput == [done |-> FALSE, value |-> 0]

\* The arguments of getTreePosition and getGalleryPosition: an index of
\* 0 .. total - 1.
Calls == {c \in [index : 0 .. MaxTotal - 1, total : 1 .. MaxTotal] :
             c.index < c.total}
NoCall == [index |-> 0, total |-> 1]
NoPlace == [treeDone |-> FALSE, tree |-> getTreePosition(0, 1),
            galleryDone |-> FALSE, gallery |-> getGalleryPosition(0, 1)]

\* ------------------------------------------------------------ initial state

Streams == 1 .. MaxStreams
GestureNames == {"Open_Palm", "Closed_Fist", "Thumb_Up"}
Scores == {50, 80}
\* results.gestures is empty
NoGestures == [name |-> "", score |-> 0]
\* results.gestures[0][0] of the classifier, or no gesture at all
Results == {NoGestures} \cup [name : GestureNames, score : Scores]

NoRequest == [st |-> "none", capApp |-> "TREE", capEnabled |-> FALSE]
\* lastPoll: whether predictWebcam has run; for its last run, whether the frame
\* had the timestamp processed last, whether the classifier was invoked, its
\* answer, the command given to onGesture, and appState before and after.
NoPoll == [polled |-> FALSE, duplicate |-> FALSE, classified |-> FALSE,
           result |-> NoGestures, command |-> "NONE", before |-> "TREE",
           after |-> "TREE"]

\* The photo list and the scene after App and the populations are
\* constructed and the layout effects of Ornaments and GiftBoxes have run
\* (every instance written at its tree position, needsUpdate set), made being
\* what the useMemo factories of the populations made.
InitViewOf(made) ==
    /\ photos = DEFAULT_PHOTOS
    /\ urlCount = 0
    /\ photoGroup = [i \in 1 .. MAX_PLACEHOLDERS |-> NewGroup]
    /\ framePc = "foliage"
    /\ frameIndex = 1
    /\ frameCount = 0
    /\ uProgress = 0
    /\ rotationY = [pop \in Populations |-> 0]
    /\ data = made
    /\ instanceMatrix = [pop \in Instanced |-> [i \in Instances |->
            [position |-> data[pop][i].treePos, frame |-> 0]]]
    /\ version = [pop \in Instanced |-> 1]
    /\ uploaded = [pop \in Instanced |-> 0]
    /\ blend = [pop \in Populations |-> 0]

\* The same with the generator started at 0.
InitView == InitViewOf(DataWith(MaxCoordinate))

\* MainScene is mounted: the effect of [appState] has run for 'TREE' and has
\* requested the first run of animate.
InitLoop ==
    /\ animRequests = [state \in AppStates |->
                          IF state = "TREE" THEN 1 ELSE 0]
    /\ effectState = "TREE"

\* The state of App, MainScene and GestureController after they are
\* constructed, with the preview block (video and canvas) in or out of the DOM.
InitControls(mounted) ==
    /\ appState = "TREE"
    /\ smoothProgress = 0
    /\ enabled = FALSE
    /\ loading = FALSE
    /\ detectedGesture = "None"
    /\ recognizerRef = "null"
    /\ lastVideoTimeRef = -1
    /\ animationFrameRef = 0
    /\ previewMounted = mounted
    /\ modelLoad = "idle"
    /\ requests = [i \in Streams |-> NoRequest]
    /\ srcObject = 0
    /\ metaHandler = 0
    /\ metaPending = FALSE
    /\ rafScheduled = {}
    /\ videoTime = 0
    /\ lastPoll = NoPoll
    /\ classifyCount = [t \in 0 .. MaxTime |-> 0]
    /\ InitLoop

\* The state after App, MainScene, GestureController and the scene are
\* constructed.
InitWith(mounted) == InitControls(mounted) /\ InitView

\* Neither position function has been applied.
InitMath ==
    /\ mathIn = NoCall
    /\ mathOut = NoPlace

\* No pure function has been applied.
InitPure ==
    /\ lerpIn = NoLerp
    /\ lerpOut = NoOutput
    /\ InitMath

\* {enabled && (<div> <video ref={videoRef}/> <canvas ref={canvasRef}/> ...)}:
\* the preview block is rendered exactly when enabled is true.
PreviewRendered(en) == en

\* The program as constructed: enabled is false, so no preview is rendered.
Init == InitWith(PreviewRendered(FALSE)) /\ InitPure

\* ------------------------------------------------------------ App, MainScene

\* One run of animate: setSmoothProgress(prev => ...).  The effect of
\* [appState] cancels the loop and starts it again with the new target when
\* appState changes, so the loop that runs holds the target of appState.
Tick ==
    /\ smoothProgress' = SmoothStep(smoothProgress, TargetOf(appState))
    /\ Rerender
    /\ UNCHANGED <<appState, gestureVars, otherVars>>

\* A button that is disabled while the classifier model is loading.
ToggleStateWhenIdle ==
    /\ ~loading
    /\ appState' = toggleState(appState)
    /\ Rerender
    /\ UNCHANGED <<smoothProgress, gestureVars, otherVars>>

\* A button that also starts the transition over from the bound it leaves.
ToggleStateRestarts ==
    /\ appState' = toggleState(appState)
    /\ smoothProgress' = TargetOf(appState)
    /\ Rerender
    /\ UNCHANGED <<gestureVars, otherVars>>

\* The Morph Trigger button.
ToggleState ==
    /\ appState' = toggleState(appState)
    /\ Rerender
    /\ UNCHANGED <<smoothProgress, gestureVars, otherVars>>

\* onGesture(command) reaching handleGesture of some render of App: which
\* render's closure the caller holds is left open here (PredictWebcam below
\* passes the closure its caller really holds).
OnGesture ==
    \E command \in Commands, closure \in AppStates :
        /\ appState' = handleGesture(closure, command, appState)
        /\ Rerender
        /\ UNCHANGED <<smoothProgress, gestureVars, otherVars>>

\* -------------------------------------------------------- GestureController

NumRequests == Cardinality({i \in Streams : requests[i].st # "none"})

\* The effect of [active]: if (active && !recognizerRef.current) loadModel();
\* App renders <GestureController active={true} .../>.  loadModel runs up to
\* its first await.
LoadModelStart ==
    /\ modelLoad = "idle"
    /\ recognizerRef = "null"
    /\ loading' = TRUE
    /\ modelLoad' = "pending"
    /\ UNCHANGED <<morphVars, sceneVars,
                   enabled, detectedGesture, recognizerRef,
                   lastVideoTimeRef, animationFrameRef, previewMounted,
                   requests, srcObject, metaHandler, metaPending,
                   rafScheduled, videoTime, lastPoll, classifyCount>>

\* Both awaits of loadModel resolve: the recognizer is stored; finally.
LoadModelResolve ==
    /\ modelLoad = "pending"
    /\ recognizerRef' = "loaded"
    /\ loading' = FALSE
    /\ modelLoad' = "loaded"
    /\ UNCHANGED <<morphVars, sceneVars, enabled, detectedGesture,
                   lastVideoTimeRef, animationFrameRef, previewMounted,
                   requests, srcObject, metaHandler, metaPending,
                   rafScheduled, videoTime, lastPoll, classifyCount>>

\* A failure path without the finally block: loading stays set.
LoadModelRejectKeepsLoading ==
    /\ modelLoad = "pending"
    /\ modelLoad' = "failed"
    /\ UNCHANGED <<morphVars, sceneVars,
                   enabled, loading, detectedGesture, recognizerRef,
                   lastVideoTimeRef, animationFrameRef, previewMounted,
                   requests, srcObject, metaHandler, metaPending,
                   rafScheduled, videoTime, lastPoll, classifyCount>>

\* One of the awaits of loadModel rejects: catch, finally.
LoadModelReject ==
    /\ modelLoad = "pending"
    /\ loading' = FALSE
    /\ modelLoad' = "failed"
    /\ UNCHANGED <<morphVars, sceneVars,
                   enabled, detectedGesture, recognizerRef,
                   lastVideoTimeRef, animationFrameRef, previewMounted,
                   requests, srcObject, metaHandler, metaPending,
                   rafScheduled, videoTime, lastPoll, classifyCount>>

\* A start that loads the classifier model again on every click.
StartCameraReloads ==
    /\ ~loading
    /\ ~enabled
    /\ NumRequests < MaxStreams
    /\ loading' = TRUE
    /\ modelLoad' = "pending"
    /\ UNCHANGED <<morphVars, sceneVars,
                   enabled, detectedGesture, recognizerRef,
                   lastVideoTimeRef, animationFrameRef, previewMounted,
                   requests, srcObject, metaHandler, metaPending,
                   rafScheduled, videoTime, lastPoll, classifyCount>>

\* A click on the button while it shows startCamera (onClick={enabled ?
\* stopCamera : startCamera}, disabled={loading}), up to the await of
\* getUserMedia.  The request keeps the closure of the render it was clicked
\* in: its enabled, and the appState of the handleGesture it was given.
StartCamera ==
    /\ ~loading
    /\ ~enabled
    /\ NumRequests < MaxStreams
    /\ IF recognizerRef = "null"
       THEN UNCHANGED requests
       ELSE requests' = [requests EXCEPT ![NumRequests + 1] =
                [st |-> "pending", capApp |-> appState, capEnabled |-> enabled]]
    /\ UNCHANGED <<morphVars, sceneVars,
                   enabled, loading, detectedGesture, recognizerRef,
                   lastVideoTimeRef, animationFrameRef, previewMounted,
                   modelLoad, srcObject, metaHandler, metaPending,
                   rafScheduled, videoTime, lastPoll, classifyCount>>

\* getUserMedia resolves with a stream: if (videoRef.current) the stream is
\* attached and onloadedmetadata is set; otherwise startCamera just returns
\* and the stream stays as it is.
GetUserMediaResolve ==
    \E i \in Streams :
        /\ requests[i].st = "pending"
        /\ requests' = [requests EXCEPT ![i].st = "live"]
        /\ IF previewMounted
           THEN /\ srcObject' = i
                /\ metaHandler' = i
                /\ metaPending' = TRUE
           ELSE UNCHANGED <<srcObject, metaHandler, metaPending>>
        /\ UNCHANGED <<morphVars, sceneVars, enabled, loading, detectedGesture,
                       recognizerRef, lastVideoTimeRef, animationFrameRef,
                       previewMounted, modelLoad, rafScheduled, videoTime,
                       lastPoll, classifyCount>>

\* getUserMedia rejects: catch (e) { console.error(...) }.
GetUserMediaReject ==
    \E i \in Streams :
        /\ requests[i].st = "pending"
        /\ requests' = [requests EXCEPT ![i].st = "denied"]
        /\ UNCHANGED <<morphVars, sceneVars, enabled, loading, detectedGesture,
                       recognizerRef, lastVideoTimeRef, animationFrameRef,
                       previewMounted, modelLoad, srcObject, metaHandler,
                       metaPending, rafScheduled, videoTime, lastPoll,
                       classifyCount>>

\* A test that takes every poll for a new frame.
FreshFrameAlways(time, last) == TRUE

\* video.currentTime !== lastVideoTimeRef.current
FreshFrame(time, last) == time # last

\* A mapping that also accepts a score equal to the threshold.
GestureCommandAtThreshold(res) ==
    IF res.name # "" /\ res.score >= ScoreThreshold
    THEN IF res.name = "Open_Palm" THEN "SCATTER"
         ELSE IF res.name = "Closed_Fist" THEN "GATHER"
         ELSE "NONE"
    ELSE "NONE"

\* The call of onGesture made for a classifier result: its command, or "NONE".
GestureCommand(res) ==
    IF res.name # "" /\ res.score > ScoreThreshold
    THEN IF res.name = "Open_Palm" THEN "SCATTER"
         ELSE IF res.name = "Closed_Fist" THEN "GATHER"
         ELSE "NONE"
    ELSE "NONE"

\* A label that follows the top gesture whatever its score.
DetectedAfterAnyScore(res, current) ==
    IF res.name = "" THEN "None" ELSE res.name

\* detectedGesture after a classifier result.
DetectedAfter(res, current) ==
    IF res.name = "" THEN "None"
    ELSE IF res.score > ScoreThreshold THEN res.name
    ELSE current

\* predictWebcam of closure k, the classifier answering res; pendingRaf are the
\* animation frames still requested when it starts.
PredictWebcam(k, res, pendingRaf) ==
    LET c == requests[k]
        ready == previewMounted /\ recognizerRef # "null"
        fresh == ready /\ FreshFrame(videoTime, lastVideoTimeRef)
        command == IF fresh THEN GestureCommand(res) ELSE "NONE"
        again == ready /\ c.capEnabled
        after == IF command = "NONE" THEN appState
                 ELSE handleGesture(c.capApp, command, appState)
    IN  /\ lastVideoTimeRef' = IF fresh THEN videoTime ELSE lastVideoTimeRef
        /\ detectedGesture' = IF fresh THEN DetectedAfter(res, detectedGesture)
                              ELSE detectedGesture
        /\ appState' = after
        /\ animationFrameRef' = IF again THEN k ELSE animationFrameRef
        /\ rafScheduled' = IF again THEN pendingRaf \cup {k} ELSE pendingRaf
        /\ classifyCount' = IF fresh
                            THEN [classifyCount EXCEPT ![videoTime] = @ + 1]
                            ELSE classifyCount
        /\ lastPoll' = [polled |-> TRUE,
                        duplicate |-> (videoTime = lastVideoTimeRef),
                        classified |-> fresh,
                        result |-> IF fresh THEN res ELSE NoGestures,
                        command |-> command, before |-> appState,
                        after |-> after]

\* The loadedmetadata event of the video element: play(), setEnabled(true),
\* predictWebcam() of the closure that set the handler; then the render.
OnLoadedMetadata ==
    /\ metaPending
    /\ metaHandler # 0
    /\ \E res \in Results : PredictWebcam(metaHandler, res, rafScheduled)
    /\ enabled' = TRUE
    /\ previewMounted' = PreviewRendered(TRUE)
    /\ metaPending' = FALSE
    /\ UNCHANGED <<smoothProgress, sceneVars,
                   loading, recognizerRef, modelLoad,
                   requests, srcObject, metaHandler, videoTime>>

\* A requested animation frame of closure k runs predictWebcam.
AnimationFrame ==
    \E k \in rafScheduled :
        /\ \E res \in Results : PredictWebcam(k, res, rafScheduled \ {k})
        /\ UNCHANGED <<smoothProgress, sceneVars,
                       enabled, loading, recognizerRef,
                       previewMounted, modelLoad, requests, srcObject,
                       metaHandler, metaPending, videoTime>>

\* A stop that clears the flag and the stream but leaves the tracks running.
StopCameraKeepsTracks ==
    /\ enabled
    /\ ~loading
    /\ previewMounted /\ srcObject # 0
    /\ srcObject' = 0
    /\ enabled' = FALSE
    /\ rafScheduled' = rafScheduled \ {animationFrameRef}
    /\ previewMounted' = PreviewRendered(FALSE)
    /\ metaHandler' = 0
    /\ metaPending' = FALSE
    /\ UNCHANGED <<morphVars, sceneVars,
                   loading, detectedGesture, recognizerRef,
                   lastVideoTimeRef, animationFrameRef, modelLoad, requests,
                   videoTime, lastPoll, classifyCount>>

\* A click on the button while it shows stopCamera; then the render, which
\* takes the preview block out, and the effect of [enabled].
StopCamera ==
    /\ enabled
    /\ ~loading
    /\ IF previewMounted /\ srcObject # 0
       THEN /\ requests' = [requests EXCEPT ![srcObject].st = "stopped"]
            /\ srcObject' = 0
            /\ enabled' = FALSE
            /\ rafScheduled' = rafScheduled \ {animationFrameRef}
            /\ previewMounted' = PreviewRendered(FALSE)
            /\ metaHandler' = 0
            /\ metaPending' = FALSE
       ELSE UNCHANGED <<requests, srcObject, enabled, rafScheduled,
                        previewMounted, metaHandler, metaPending>>
    /\ UNCHANGED <<morphVars, sceneVars,
                   loading, detectedGesture, recognizerRef,
                   lastVideoTimeRef, animationFrameRef, modelLoad,
                   videoTime, lastPoll, classifyCount>>

\* The camera delivers its next frame: video.currentTime, which names the
\* frame, advances.
VideoFrame ==
    /\ srcObject # 0
    /\ requests[srcObject].st = "live"
    /\ videoTime < MaxTime
    /\ videoTime' = videoTime + 1
    /\ UNCHANGED <<morphVars, sceneVars,
                   enabled, loading, detectedGesture, recognizerRef,
                   lastVideoTimeRef, animationFrameRef, previewMounted,
                   modelLoad, requests, srcObject, metaHandler, metaPending,
                   rafScheduled, lastPoll, classifyCount>>

\* ------------------------------------------------------- App: photo upload

\* handlePhotoUpload for a selection of k files, and the render: a PhotoItem
\* whose entry was replaced has a new key and is mounted anew, an appended
\* entry mounts a new PhotoItem.
HandlePhotoUpload ==
    \E k \in 1 .. MaxFiles :
        /\ urlCount + k <= MaxUploaded
        /\ LET files == [j \in 1 .. k |-> urlCount + j]
           IN  photos' = handlePhotoUpload(photos, files)
        /\ photoGroup' = [i \in 1 .. Len(photos') |->
               IF i <= Len(photos) /\ photos'[i] = photos[i]
               THEN photoGroup[i] ELSE NewGroup]
        /\ urlCount' = urlCount + k
        /\ Rerender
        /\ UNCHANGED <<morphVars, gestureVars, frameVars, lerpVars,
                       loopVars, mathVars>>

\* ---------------------------------------------------------------- the scene
\* A display frame: the useFrame callbacks run in the order in which the
\* components are mounted (MainScene's group: Foliage, Ornaments, GiftBoxes,
\* PhotoGallery), each with the progress prop of the last render, which is
\* smoothProgress; then the scene is drawn.

\* A foliage that turns in every frame, whatever the progress.
FoliageFrameAlwaysSpins ==
    /\ framePc = "foliage"
    /\ frameCount < MaxFrames
    /\ frameCount' = frameCount + 1
    /\ uProgress' = MathLerp(uProgress, smoothProgress, LerpNum, LerpDen)
    /\ rotationY' = [rotationY EXCEPT
                        !["foliage"] = @ + RotationStep]
    /\ blend' = [blend EXCEPT !["foliage"] = uProgress']
    /\ framePc' = "ornaments"
    /\ frameIndex' = 1
    /\ UNCHANGED <<morphVars, gestureVars, photoVars, lerpVars, loopVars,
                   mathVars, data,
                   instanceMatrix, version, uploaded>>

\* useFrame of Foliage.
FoliageFrame ==
    /\ framePc = "foliage"
    /\ frameCount < MaxFrames
    /\ frameCount' = frameCount + 1
    /\ uProgress' = MathLerp(uProgress, smoothProgress, LerpNum, LerpDen)
    /\ rotationY' = [rotationY EXCEPT
                        !["foliage"] = @ + IdleSpin(smoothProgress)]
    /\ blend' = [blend EXCEPT !["foliage"] = uProgress']
    /\ framePc' = "ornaments"
    /\ frameIndex' = 1
    /\ UNCHANGED <<morphVars, gestureVars, photoVars, lerpVars, loopVars,
                   mathVars, data,
                   instanceMatrix, version, uploaded>>

\* A callback that sets needsUpdate inside its for loop.
MarksDirtyInLoop(i) == TRUE

\* instanceMatrix.needsUpdate = true stands after the for loop: it runs once
\* the instance of the last index is written.
MarksDirty(i) == i = InstanceCount

\* useFrame of Ornaments or of GiftBoxes (pop), one run of the loop body; with
\* the last instance, the statements after the loop.
InstanceFrame(pop, nextPc) ==
    /\ framePc = pop
    /\ LET d == data[pop][frameIndex]
           pos == lerpVectors(d.treePos, d.scatterPos, smoothProgress)
           over == frameIndex = InstanceCount
       IN  /\ instanceMatrix' = [instanceMatrix EXCEPT ![pop][frameIndex] =
                                    [position |-> pos, frame |-> frameCount]]
           /\ version' = IF MarksDirty(frameIndex)
                         THEN [version EXCEPT ![pop] = @ + 1]
                         ELSE version
           /\ rotationY' = IF over
                           THEN [rotationY EXCEPT
                                    ![pop] = @ + IdleSpin(smoothProgress)]
                           ELSE rotationY
           /\ framePc' = IF over THEN nextPc ELSE pop
           /\ frameIndex' = IF over THEN 1 ELSE frameIndex + 1
    /\ blend' = [blend EXCEPT ![pop] = smoothProgress]
    /\ UNCHANGED <<morphVars, gestureVars, photoVars, lerpVars, loopVars,
                   mathVars, frameCount,
                   uProgress, data, uploaded>>

OrnamentsFrame == InstanceFrame("ornaments", "gifts")

GiftBoxesFrame == InstanceFrame("gifts", "photos")

\* useFrame of every PhotoItem: the target between the tree and the gallery
\* position, the group moved a tenth of the way to it, the scale.  Nothing
\* rotates the photos about the vertical axis.
PhotoItemFrame ==
    /\ framePc = "photos"
    /\ photoGroup' = [i \in 1 .. Len(photos) |->
          [position |-> VectorLerp(photoGroup[i].position,
                            lerpVectors(PhotoTreeY(i - 1, Len(photos)),
                                        GalleryY(i - 1), smoothProgress)),
           scale |-> MathLerp(TreeScale, GalleryScale, smoothProgress, One)]]
    /\ blend' = [blend EXCEPT !["photos"] = smoothProgress]
    /\ framePc' = "render"
    /\ UNCHANGED <<morphVars, gestureVars, photos, urlCount, lerpVars,
                   loopVars, mathVars,
                   frameIndex, frameCount, uProgress, rotationY, data,
                   instanceMatrix, version, uploaded>>

\* The end of the display frame: the renderer draws, sending every instance
\* buffer whose version it has not sent; and React renders MainScene with the
\* progress that animate set in this frame.
CommitFrame ==
    /\ framePc = "render"
    /\ uploaded' = version
    /\ smoothProgress' = SmoothStep(smoothProgress, TargetOf(appState))
    /\ framePc' = "foliage"
    /\ Rerender
    /\ UNCHANGED <<appState, gestureVars, photoVars, lerpVars, loopVars,
                   mathVars, frameIndex,
                   frameCount, uProgress, rotationY, instanceMatrix,
                   version, blend>>

\* The Morph Trigger button, between two display frames.
SceneToggle ==
    /\ framePc = "foliage"
    /\ ToggleState

\* ------------------------------------------------------------- lerpVectors

\* One application of lerpVectors to the inputs drawn at the start.
ApplyLerpVectors ==
    /\ ~lerpOut.done
    /\ lerpOut' = [done |-> TRUE,
                   value |-> lerpVectors(lerpIn.v1, lerpIn.v2, lerpIn.alpha)]
    /\ UNCHANGED <<morphVars, gestureVars, photoVars, frameVars, lerpIn,
                   loopVars, mathVars, memoVars>>

\* ------------------------------------------- the animation loop of MainScene

\* A cleanup that cancels nothing.
cancelNothing(reqs, state) == reqs

\* return () => cancelAnimationFrame(animId) of the effect made for state:
\* animId is assigned by every requestAnimationFrame(animate) of that effect,
\* so it names the request of its loop that has not run yet.
cancelAnimationFrame(reqs, state) ==
    [reqs EXCEPT ![state] = IF @ > 0 THEN @ - 1 ELSE 0]

\* React commits a render in which appState differs from the one the effect
\* last ran for: the cleanup of that effect runs, then the effect runs again
\* and requests animate with the new target.
MorphEffect ==
    /\ effectState # appState
    /\ animRequests' = [cancelAnimationFrame(animRequests, effectState)
                           EXCEPT ![appState] = @ + 1]
    /\ effectState' = appState
    /\ UNCHANGED <<morphVars, gestureVars, photoVars, frameVars, lerpVars,
                   mathVars, memoVars>>

\* A requested animate callback runs: setSmoothProgress with the target of
\* its effect, then animId = requestAnimationFrame(animate), one request in
\* the place of the one that ran.
Animate ==
    \E state \in AppStates :
        /\ animRequests[state] > 0
        /\ smoothProgress' = SmoothStep(smoothProgress, TargetOf(state))
        /\ animRequests' = [animRequests EXCEPT ![state] = @ - 1 + 1]
        /\ Rerender
        /\ UNCHANGED <<appState, effectState, gestureVars, photoVars,
                       frameVars, lerpVars, mathVars>>

\* ------------------------------------- getTreePosition, getGalleryPosition

\* One application of getTreePosition to the arguments drawn at the start.
ApplyTreePosition ==
    /\ ~mathOut.treeDone
    /\ mathOut' = [mathOut EXCEPT
                      !.treeDone = TRUE,
                      !.tree = getTreePosition(mathIn.index, mathIn.total)]
    /\ UNCHANGED <<morphVars, gestureVars, photoVars, frameVars, lerpVars,
                   loopVars, mathIn, memoVars>>

\* One application of getGalleryPosition to the same arguments.
ApplyGalleryPosition ==
    /\ ~mathOut.galleryDone
    /\ mathOut' = [mathOut EXCEPT
                      !.galleryDone = TRUE,
                      !.gallery = getGalleryPosition(mathIn.index,
                                                     mathIn.total)]
    /\ UNCHANGED <<morphVars, gestureVars, photoVars, frameVars, lerpVars,
                   loopVars, mathIn, memoVars>>

\* ---------------------------------------------------------- specifications

\* The morph progress controller and its two inputs.
Next ==
    \/ Tick
    \/ ToggleState
    \/ OnGesture

Spec == Init /\ [][Next]_vars

\* The gesture controller as the program runs it.  From Init the preview is
\* never in the DOM, so OnLoadedMetadata, StopCamera, VideoFrame and
\* AnimationFrame are never enabled (NeverActive, checked under SpecWhole).
CameraNext ==
    \/ LoadModelStart
    \/ LoadModelResolve
    \/ LoadModelReject
    \/ StartCamera
    \/ GetUserMediaResolve
    \/ GetUserMediaReject
    \/ ToggleState

SpecCamera == Init /\ [][CameraNext]_vars

\* The handlers of the active session, run from the state in which the
\* preview block is in the DOM when the first stream arrives.
InitPreview == InitWith(TRUE) /\ InitPure

PreviewNext ==
    \/ CameraNext
    \/ OnLoadedMetadata
    \/ StopCamera
    \/ VideoFrame

SpecPreview == InitPreview /\ [][PreviewNext]_vars

\* Every handler of the gesture controller, from the program's initial state.
WholeNext ==
    \/ PreviewNext
    \/ AnimationFrame

SpecWhole == Init /\ [][WholeNext]_vars

\* Under SpecWhole: the session never becomes active and no poll ever runs.
NeverActive ==
    /\ ~enabled
    /\ ~previewMounted
    /\ srcObject = 0
    /\ rafScheduled = {}
    /\ lastPoll = NoPoll

\* Under SpecPreview: no animation frame is ever requested, because every
\* closure that runs predictWebcam was made while enabled was false.
NoFrameRequested ==
    /\ rafScheduled = {}
    /\ \A i \in Streams : ~requests[i].capEnabled

\* With weak fairness of the animation loop: requestAnimationFrame(animate)
\* is requested again at the end of every run of animate.
FairSpec == Spec /\ WF_vars(Tick)

\* The photo list under uploads, with the manual toggle.
PhotosNext ==
    \/ HandlePhotoUpload
    \/ ToggleState

SpecPhotos == Init /\ [][PhotosNext]_vars

\* The scene: display frames, and the manual toggle between them.
SceneNext ==
    \/ FoliageFrame
    \/ OrnamentsFrame
    \/ GiftBoxesFrame
    \/ PhotoItemFrame
    \/ CommitFrame
    \/ SceneToggle

SpecScene == Init /\ [][SceneNext]_vars

\* lerpVectors applied to two coordinates and a weight drawn at the start.
InitLerp ==
    /\ InitWith(PreviewRendered(FALSE))
    /\ lerpIn \in [v1 : Coordinates, v2 : Coordinates, alpha : Alphas]
    /\ lerpOut = NoOutput
    /\ InitMath

LerpNext == ApplyLerpVectors

SpecLerp == InitLerp /\ [][LerpNext]_vars

\* The animation loop with its requests: a change of appState, by the button
\* or by a gesture command, is followed by the render and the effect; until
\* then the loop of the previous effect goes on.
LoopNext ==
    \/ Animate
    \/ MorphEffect
    \/ ToggleState
    \/ OnGesture

SpecLoop == Init /\ [][LoopNext]_vars

\* The Morph Trigger button, pressed when the transition has ended: this keeps
\* the progress values of SpecRender to those of the two approaches.
ToggleAtRest ==
    /\ smoothProgress = TargetOf(appState)
    /\ ToggleState

\* The populations constructed with the generator at any of the seeds, then
\* ticks, toggles and photo uploads, each with its render.
InitRender ==
    /\ InitControls(PreviewRendered(FALSE))
    /\ \E seed \in Seeds : InitViewOf(DataFor(MaxCoordinate, seed))
    /\ InitPure

RenderNext ==
    \/ Tick
    \/ ToggleAtRest
    \/ HandlePhotoUpload

SpecRender == InitRender /\ [][RenderNext]_vars

\* The two position functions applied to an index and a total drawn at the
\* start.
InitMathCall ==
    /\ InitWith(PreviewRendered(FALSE))
    /\ lerpIn = NoLerp
    /\ lerpOut = NoOutput
    /\ mathIn \in Calls
    /\ mathOut = NoPlace

MathNext ==
    \/ ApplyTreePosition
    \/ ApplyGalleryPosition

SpecMath == InitMathCall /\ [][MathNext]_vars

\* ------------------------------------------------------------------ claims

\* Progress after 2, 4, 8 further ticks toward bound b ...
Step2(p, b) == SmoothStep(SmoothStep(p, b), b)
Step4(p, b) == Step2(Step2(p, b), b)
Step8(p, b) == Step4(Step4(p, b), b)

\* ... and after n further ticks toward b.
RECURSIVE AfterTicks(_, _, _)
AfterTicks(p, b, n) ==
    IF n = 0 \/ p = b THEN p
    ELSE IF n >= 8 THEN AfterTicks(Step8(p, b), b, n - 8)
    ELSE AfterTicks(SmoothStep(p, b), b, n - 1)

C2_ToggleFlips ==
    [][ToggleState =>
        /\ appState' \in AppStates
        /\ appState' # appState
        /\ (appState = "TREE" => appState' = "SCATTERED")
        /\ (appState = "SCATTERED" => appState' = "TREE")
        /\ toggleState(appState') = appState
        /\ smoothProgress' = smoothProgress]_vars

\* C2 witness: a toggle was taken before any tick ...
C2_Witness == appState = "SCATTERED" /\ smoothProgress = 0

\* From the current progress, MaxTicksToBound ticks toward the current target
\* end exactly at its bound, and a tick taken at the bound stays there.
WithinTicks ==
    LET b == TargetOf(appState)
    IN  /\ AfterTicks(smoothProgress, b, MaxTicksToBound) = b
        /\ SmoothStep(b, b) = b

\* C3: from every progress value, if the target is not changed again and
\* ticks keep occurring, progress becomes exactly the target's bound (1 for
\* SCATTERED, 0 for TREE) within MaxTicksToBound ticks and stays equal to it.
C3_ReachesBound ==
    /\ []WithinTicks
    /\ <>[](appState = "SCATTERED") => <>[](smoothProgress = One)
    /\ <>[](appState = "TREE") => <>[](smoothProgress = 0)

\* C3 witness: progress has arrived at exactly 1 under target SCATTERED.
C3_Witness == appState = "SCATTERED" /\ smoothProgress = One

\* C4: on a tick with bound b, progress within 0.001 of b becomes b, otherwise
\* it moves by 0.05 * (b - progress) (to the nearest unit); the distance to b
\* never grows and progress never passes b.
C4_TickStep ==
    [][Tick =>
        LET b == TargetOf(appState)
            d == b - smoothProgress
            m == smoothProgress' - smoothProgress
        IN  /\ (Abs(d) < Epsilon => smoothProgress' = b)
            /\ (Abs(d) >= Epsilon =>
                    /\ Abs(SmoothDen * m - SmoothNum * d) * 2 <= SmoothDen
                    /\ smoothProgress' # smoothProgress)
            /\ Abs(b - smoothProgress') <= Abs(d)
            /\ (d >= 0 => smoothProgress' <= b)
            /\ (d <= 0 => smoothProgress' >= b)]_vars

\* C4 witness: a tick moved progress by exactly 5% of the whole distance.
C4_Witness == appState = "SCATTERED" /\ smoothProgress = Scaled(One)

\* C5: progress starts at 0 with target TREE, and stays within [0,1] under
\* every interleaving of ticks, toggles and gesture commands.
C5_ProgressInRange ==
    /\ appState = "TREE" /\ smoothProgress = 0
    /\ [](smoothProgress >= 0 /\ smoothProgress <= One)

\* C5 witness: the target was changed back in the middle of a transition.
C5_Witness ==
    /\ appState = "TREE"
    /\ smoothProgress = SmoothStep(SmoothStep(0, One), One)

\* C6: a classification with no gestures, with a top score not above 0.5, or
\* with a top label other than Open_Palm and Closed_Fist gives no command and
\* leaves the target alone; only Open_Palm above the threshold gives SCATTER
\* and only Closed_Fist above the threshold gives GATHER.
C6_CommandMapping ==
    LET r == lastPoll.result
        above == r.name # "" /\ r.score * 2 > 100
    IN  /\ lastPoll.command = "SCATTER" <=>
               (lastPoll.classified /\ above /\ r.name = "Open_Palm")
        /\ lastPoll.command = "GATHER" <=>
               (lastPoll.classified /\ above /\ r.name = "Closed_Fist")
        /\ lastPoll.command \in {"SCATTER", "GATHER", "NONE"}
        /\ lastPoll.command = "NONE" => lastPoll.after = lastPoll.before

\* C6 witness: a Closed_Fist scored exactly 0.5 was classified; no command.
C6_Witness ==
    /\ lastPoll.classified
    /\ lastPoll.result = [name |-> "Closed_Fist", score |-> 50]
    /\ lastPoll.command = "NONE"

\* C7: the classifier is invoked at most once per video timestamp; a poll whose
\* frame has the timestamp processed last invokes no classification and gives
\* no command; an Open_Palm above the threshold on a new timestamp gives
\* SCATTER in that poll.
C7_OncePerTimestamp ==
    /\ \A t \in 0 .. MaxTime : classifyCount[t] <= 1
    /\ lastPoll.polled =>
          /\ lastPoll.duplicate =>
                (~lastPoll.classified /\ lastPoll.command = "NONE")
          /\ ~lastPoll.duplicate => lastPoll.classified
          /\ (lastPoll.classified /\ lastPoll.result.name = "Open_Palm"
                /\ lastPoll.result.score > ScoreThreshold)
                => lastPoll.command = "SCATTER"

\* C7 witness: a frame was classified, and a later poll of the same timestamp
\* was skipped.
C7_Witness ==
    /\ lastPoll.polled
    /\ lastPoll.duplicate
    /\ classifyCount[videoTime] = 1

C9_GrantActivates ==
    (\E i \in Streams : requests[i].st = "live")
        => (srcObject # 0 /\ (enabled \/ metaPending))

\* C10: a step that clears the enabled flag stops the tracks of the attached
\* stream, detaches it and leaves no requested animation frame; and no step
\* that starts and ends with the flag cleared runs a classification or gives a
\* command.
C10_DisableStops ==
    [][/\ (enabled /\ ~enabled') =>
            /\ srcObject # 0
            /\ requests'[srcObject].st = "stopped"
            /\ srcObject' = 0
            /\ rafScheduled' = {}
       /\ (~enabled /\ ~enabled') =>
            /\ classifyCount' = classifyCount
            /\ lastPoll' = lastPoll
            /\ (appState' # appState => ToggleState)]_vars

\* C10 witness: the session was active and has been disabled.
C10_Witness ==
    /\ ~enabled
    /\ srcObject = 0
    /\ \E i \in Streams : requests[i].st = "stopped"

\* C11: whenever the session is not active (enabled is false), no camera
\* stream that was obtained still has a running track.
C11_TracksReleased ==
    ~enabled => \A i \in Streams : requests[i].st # "live"

\* C12: the model load is one-shot.  The loadModel task only ever moves
\* idle -> pending -> loaded or failed; once a classifier is stored, every
\* step (enable and disable requests included) leaves it stored, starts no
\* load and leaves loading cleared, and an enable request made then goes
\* straight to the camera request.
C12_LoadOnce ==
    [][/\ (modelLoad' # modelLoad) =>
            \/ modelLoad = "idle" /\ modelLoad' = "pending"
            \/ modelLoad = "pending" /\ modelLoad' \in {"loaded", "failed"}
       /\ (recognizerRef = "loaded") =>
            /\ recognizerRef' = "loaded"
            /\ modelLoad = "loaded" /\ modelLoad' = "loaded"
            /\ ~loading /\ ~loading'
            /\ (StartCamera =>
                    \E i \in Streams : /\ requests[i].st = "none"
                                       /\ requests'[i].st = "pending")]_vars

\* C12 witness: with the classifier loaded, the session was enabled, disabled,
\* and an enable request has been made again.
C12_Witness ==
    /\ recognizerRef = "loaded"
    /\ \E i \in Streams : requests[i].st = "stopped"
    /\ \E j \in Streams : requests[j].st = "pending"

\* C13: a step in which the model load fails or a camera request is denied
\* ends with the session disabled, loading cleared and no animation frame
\* requested, runs no poll, gives no command, and leaves the morph target and
\* the progress as they were.
C13_FailureLeavesDisabled ==
    [][(\/ modelLoad = "pending" /\ modelLoad' = "failed"
        \/ \E i \in Streams : /\ requests[i].st = "pending"
                              /\ requests'[i].st = "denied")
          => /\ ~enabled'
             /\ ~loading'
             /\ rafScheduled' = {}
             /\ recognizerRef' = recognizerRef
             /\ lastPoll' = lastPoll
             /\ classifyCount' = classifyCount
             /\ appState' = appState
             /\ smoothProgress' = smoothProgress]_vars

\* C13 witness: a camera request was denied after the target had been toggled.
C13_Witness ==
    /\ \E i \in Streams : requests[i].st = "denied"
    /\ appState = "SCATTERED"
    /\ ~enabled /\ ~loading

\* C14: in every reachable state of the gesture session the manual toggle can
\* be taken, and taking it changes the target.
C14_ToggleAlwaysEnabled ==
    /\ ENABLED ToggleState
    /\ toggleState(appState) \in AppStates \ {appState}

\* C14 witness: the toggle was taken while the session was active (the last
\* poll left the target TREE).
C14_Witness ==
    /\ enabled
    /\ lastPoll.polled /\ lastPoll.after = "TREE"
    /\ appState = "SCATTERED"

\* C15: an upload of k >= 1 files to a list of length n with p placeholders
\* puts the first min(k, p) files, in upload order, in the place of the
\* placeholders of lowest index, leaves every other entry where it was, and
\* appends the other max(0, k - p) files in upload order, so the new length is
\* n + max(0, k - p).  From the 8 placeholders, 3 files fill the first three
\* entries and the length stays 8; 10 files fill all 8 and the length is 10.
C15_UploadFillsThenAppends ==
    [][urlCount' # urlCount =>
        LET n == Len(photos)
            k == urlCount' - urlCount
            rank(i) == Cardinality({j \in 1 .. i : photos[j].isPlaceholder})
            p == rank(n)
            extra == IF k > p THEN k - p ELSE 0
        IN  /\ k >= 1
            /\ Len(photos') = n + extra
            /\ \A i \in 1 .. n :
                  photos'[i] = IF photos[i].isPlaceholder /\ rank(i) <= k
                               THEN Photo(urlCount + rank(i))
                               ELSE photos[i]
            /\ \A j \in 1 .. extra : photos'[n + j] = Photo(urlCount + p + j)
            /\ (photos = DEFAULT_PHOTOS /\ k = 3) =>
                  /\ Len(photos') = 8
                  /\ {i \in 1 .. 8 : ~photos'[i].isPlaceholder} = 1 .. 3
            /\ (photos = DEFAULT_PHOTOS /\ k = 10) =>
                  /\ Len(photos') = 10
                  /\ \A i \in 1 .. 10 : ~photos'[i].isPlaceholder]_vars

\* C15 witness: uploads that filled placeholders and appended: every
\* placeholder is replaced and the list has grown to 10.
C15_Witness ==
    /\ urlCount = 10
    /\ Len(photos) = 10
    /\ photos[1] = Photo(1)
    /\ photos[10] = Photo(10)

\* C16: when a display frame is drawn, the blend weight each population applied
\* in it (foliage, ornaments, gifts, photos) is the progress of that frame.
C16_SameBlendWeight ==
    framePc = "render" => \A pop \in Populations : blend[pop] = smoothProgress

\* C17: the position interpolated between an entity's two stored positions is
\* its tree position at progress 0 and its scatter (gallery) position at
\* progress 1, exactly.
C17_ExactAtEnds ==
    lerpOut.done =>
        /\ lerpIn.alpha = 0 => lerpOut.value = lerpIn.v1
        /\ lerpIn.alpha = One => lerpOut.value = lerpIn.v2

\* C18: for each population (foliage, ornaments, gifts, photos), the frame
\* callback adds the fixed increment to rotation.y when progress is below 0.5
\* and leaves rotation.y as it is otherwise.
C18_IdleSpin ==
    [][\A pop \in Populations :
          (framePc = pop /\ framePc' # pop) =>
              rotationY'[pop] = IF 2 * smoothProgress < One
                                THEN rotationY[pop] + RotationStep
                                ELSE rotationY[pop]]_vars

\* C19: a step that marks an instance buffer dirty leaves every instance
\* written in the current frame; a buffer marked dirty by a frame callback
\* holds no transform of an earlier frame; and what the renderer sends is
\* written in full in the frame it is drawn in.
C19_DirtyAfterAllWritten ==
    [][\A pop \in Instanced :
          /\ version'[pop] # version[pop] =>
                \A i \in Instances : instanceMatrix'[pop][i].frame = frameCount'
          /\ (version[pop] > 1 /\ version[pop] # uploaded[pop]) =>
                \A i \in Instances : instanceMatrix[pop][i].frame = frameCount
          /\ uploaded'[pop] # uploaded[pop] =>
                \A i \in Instances : instanceMatrix[pop][i].frame = frameCount
      ]_vars

\* C19 witness: in a frame after the first, the ornaments are all written and
\* their buffer is marked and not yet sent, while the gifts are being written.
C19_Witness ==
    /\ frameCount >= 2
    /\ framePc = "gifts"
    /\ frameIndex = InstanceCount
    /\ version["ornaments"] # uploaded["ornaments"]
    /\ \A i \in Instances : instanceMatrix["ornaments"][i].frame = frameCount
    /\ version["gifts"] = uploaded["gifts"]

C21_OneLoop ==
    /\ animRequests["TREE"] + animRequests["SCATTERED"] <= 1
    /\ animRequests[effectState] = 1

\* C21 witness: the target was changed while the loop was running, the effect
\* ran again, the new loop moved progress, and the target was changed again.
C21_Witness ==
    /\ effectState = "SCATTERED"
    /\ appState = "TREE"
    /\ animRequests["SCATTERED"] = 1
    /\ smoothProgress = Scaled(One)

\* C22: getGalleryPosition puts index i on ring floor(i / 8) at slot i mod 8
\* (of 10 photos, index 0 on ring 0 at slot 0 and index 8 on ring 1 at slot
\* 0); the height depends on the ring alone, and the ring above is higher by
\* exactly 2.5.
C22_RingAndSlot ==
    mathOut.galleryDone =>
        LET i == mathIn.index
            total == mathIn.total
            place == mathOut.gallery
            above == getGalleryPosition(i + 8, total + 8)
        IN  /\ place.ringIndex = i \div 8
            /\ place.positionInRing = i % 8
            /\ 8 * place.ringIndex + place.positionInRing = i
            /\ (i = 0 => place.ringIndex = 0 /\ place.positionInRing = 0)
            /\ (i = 8 /\ total = 10 =>
                    place.ringIndex = 1 /\ place.positionInRing = 0)
            /\ above.ringIndex = place.ringIndex + 1
            /\ above.y - place.y = 25
            /\ \A j \in 0 .. total - 1 :
                   getGalleryPosition(j, total).ringIndex = place.ringIndex
                       => getGalleryPosition(j, total).y = place.y

\* C22 witness: getGalleryPosition was applied to index 8 of 10.
C22_Witness ==
    /\ mathOut.galleryDone
    /\ mathIn = [index |-> 8, total |-> 10]
    /\ mathOut.gallery.ringIndex = 1
    /\ mathOut.gallery.y = 5

\* C23: getTreePosition(i, total) has the height y = (i / total) * 12 - 6,
\* and its horizontal radius is the linear function of y that is 0 at y = 6
\* and TREE_RADIUS = 4 at y = -6, which is TREE_RADIUS * (6 - y) / 12.
C23_TreeCone ==
    mathOut.treeDone =>
        LET i == mathIn.index
            total == mathIn.total
            pos == mathOut.tree
        IN  /\ pos = getTreePosition(i, total)
            /\ pos.yNum = 12 * i - 6 * total
            /\ pos.den = total
            /\ pos.rNum * (TREE_HEIGHT * pos.den)
                   = pos.rDen * TREE_RADIUS * (6 * pos.den - pos.yNum)

\* C28: for two distinct indices of 0 .. total - 1 the gallery places differ:
\* the pairs of ring and slot differ, every angle is less than a turn, and
\* two slots of one ring have different angles.
C28_PlacesDistinct ==
    mathOut.galleryDone =>
        LET i == mathIn.index
            total == mathIn.total
            place == mathOut.gallery
        IN  /\ place.angleDen = Min(total, 8)
            /\ place.angleNum >= 0
            /\ place.angleNum < place.angleDen
            /\ \A j \in 0 .. total - 1 :
                   j # i =>
                       LET other == getGalleryPosition(j, total)
                       IN  /\ <<other.ringIndex, other.positionInRing>>
                                  # <<place.ringIndex, place.positionInRing>>
                           /\ other.ringIndex = place.ringIndex
                                  => /\ other.angleDen = place.angleDen
                                     /\ other.angleNum # place.angleNum
                           /\ other.ringIndex # place.ringIndex
                                  => other.y # place.y

\* C28 witness: getGalleryPosition was applied to a slot of the highest ring
\* of the largest gallery, a ring that is not full.
C28_Witness ==
    /\ mathOut.galleryDone
    /\ mathIn.total = MaxTotal
    /\ mathIn.index = MaxTotal - 1
    /\ mathOut.gallery.ringIndex > 0
    /\ mathOut.gallery.positionInRing < 7

\* C25: the photo list starts with 8 entries and under every upload its
\* length is at least 8 and does not decrease, an entry that is not a
\* placeholder stays the same entry at the same index, and placeholders are
\* found only in a list of length 8; the entries after the eighth are never
\* placeholders.
C25_PhotosKept ==
    /\ Len(photos) = MAX_PLACEHOLDERS
    /\ [][/\ Len(photos') >= Len(photos)
          /\ Len(photos') >= MAX_PLACEHOLDERS
          /\ \A i \in 1 .. Len(photos) :
                ~photos[i].isPlaceholder => photos'[i] = photos[i]
          /\ (\E i \in 1 .. Len(photos') : photos'[i].isPlaceholder)
                => Len(photos') = MAX_PLACEHOLDERS
          /\ \A i \in (Len(photos) + 1) .. Len(photos') :
                ~photos'[i].isPlaceholder]_vars

\* C25 witness: uploads have filled the 8 placeholders and appended 4 entries,
\* every file where its upload put it.
C25_Witness ==
    /\ Len(photos) = 12
    /\ urlCount = 12
    /\ \A i \in 1 .. 12 : photos[i] = Photo(i)

\* C26: a toggle or a gesture command changes the target and leaves progress
\* as it is; progress changes only on a tick, which leaves the target as it
\* is and moves progress by no more than 5% (to the nearest unit) of its
\* distance to the bound.
C26_AtMostFivePercent ==
    [][LET b == TargetOf(appState)
           d == b - smoothProgress
           m == smoothProgress' - smoothProgress
       IN  /\ (appState' # appState => m = 0)
           /\ (m # 0 =>
                  /\ appState' = appState
                  /\ 2 * SmoothDen * Abs(m)
                         <= 2 * SmoothNum * Abs(d) + SmoothDen)]_vars

\* C26 as amended: the same, except that the tick that finds progress within
\* 0.001 of the bound moves it the whole remaining distance, onto the bound.
C26_FivePercentOrSnap ==
    [][LET b == TargetOf(appState)
           d == b - smoothProgress
           m == smoothProgress' - smoothProgress
       IN  /\ (appState' # appState => m = 0)
           /\ (m # 0 =>
                  /\ appState' = appState
                  /\ \/ 2 * SmoothDen * Abs(m)
                            <= 2 * SmoothNum * Abs(d) + SmoothDen
                     \/ Abs(d) < Epsilon /\ smoothProgress' = b)]_vars

\* C26 witness: the target went back to TREE after one tick towards
\* SCATTERED, and the next tick moved progress 5% of the way back from where
\* it was.
C26_Witness ==
    /\ appState = "TREE"
    /\ smoothProgress = Scaled(One) + Scaled(0 - Scaled(One))
    /\ smoothProgress > 0

\* C27: detectedGesture starts as 'None' and changes only when a frame is
\* classified: a result without gestures makes it 'None', a top gesture with
\* a score above 0.5 makes it that gesture's name, and a top gesture with a
\* score of at most 0.5 leaves it as it was.  So it is always 'None' or the
\* name of a top gesture that scored above 0.5.
C27_LabelFromConfidentResult ==
    /\ detectedGesture = "None"
    /\ [][IF classifyCount' # classifyCount
          THEN LET res == lastPoll'.result
               IN  /\ lastPoll'.classified
                   /\ res.name = "" => detectedGesture' = "None"
                   /\ (res.name # "" /\ res.score > ScoreThreshold)
                          => detectedGesture' = res.name
                   /\ (res.name # "" /\ res.score <= ScoreThreshold)
                          => detectedGesture' = detectedGesture
          ELSE detectedGesture' = detectedGesture]_vars

\* C27 witness: after a confident Open_Palm, a Closed_Fist at score 0.5 was
\* classified and the label is still Open_Palm.
C27_Witness ==
    /\ detectedGesture = "Open_Palm"
    /\ lastPoll.classified
    /\ lastPoll.result = [name |-> "Closed_Fist", score |-> ScoreThreshold]

\* C29: whenever no frame callback of the instanced populations is under way
\* (between two display frames, and in a frame once the gifts are done), the
\* rotation.y of the foliage, of the ornaments and of the gifts are equal: each
\* has had 0.002 added in the same frames, those with progress below 0.5.
C29_SameRotation ==
    framePc \notin {"ornaments", "gifts"} =>
        /\ rotationY["foliage"] = rotationY["ornaments"]
        /\ rotationY["ornaments"] = rotationY["gifts"]

\* C29 witness: all the frames are done, the populations turned in some of
\* them and stood still in others, and the three angles are the same.
C29_Witness ==
    /\ framePc = "foliage"
    /\ frameCount = MaxFrames
    /\ rotationY["gifts"] > 0
    /\ rotationY["gifts"] < MaxFrames * RotationStep
    /\ rotationY["foliage"] = rotationY["gifts"]
    /\ rotationY["ornaments"] = rotationY["gifts"]

\* C24: the scatter position of every entity of the foliage, the ornaments
\* and the gifts lies at a distance of 8 to 23 from the origin, and what was
\* made when the populations were constructed is what every later state has:
\* no tick, toggle or upload, with the render it causes, changes it.
C24_ScatterDrawnOnce ==
    /\ \A pop \in Memoized : \A i \in Instances :
          /\ data[pop][i].scatterR >= 8 * RandomDen
          /\ data[pop][i].scatterR <= (8 + SCATTER_RADIUS) * RandomDen
          /\ data[pop][i].scatterR = getScatterRadius(data[pop][i].random)
    /\ [][data' = data]_vars

\* C24 witness: the generator started at its highest seed, so the first
\* foliage entity lies almost 23 away; a file was uploaded, and a tick moved
\* progress after the target had gone to SCATTERED and back.
C24_Witness ==
    /\ data["foliage"][1].random = RandomDen - 1
    /\ data["foliage"][1].scatterR = 8 * RandomDen
                                       + (RandomDen - 1) * SCATTER_RADIUS
    /\ urlCount > 0
    /\ appState = "TREE"
    /\ smoothProgress > 0
    /\ smoothProgress < One

====
